---- MODULE Spec2Model ----
(***************************************************************************)
(* think-while-you-speak: the server's per-personality turn scheduler      *)
(* (app.js, personalities.js) and the browser's speech-gated playback      *)
(* engine (public/js/main.js).                                             *)
(*                                                                         *)
(* Strings are sequences of character codes, so that trim() and join()     *)
(* are computed, not assumed.  JavaScript runs each handler to its next    *)
(* await without interruption: one action is one such run.                 *)
(***************************************************************************)
EXTENDS Integers, Sequences, FiniteSets, TLC

\* ------------------------------------------------------------------ bounds
\* /query-llama requests the server receives in one run
MaxRequests == 4
\* onSpeechEnd runs under way plus units synthesized so far, in one browser session
MaxUtterances == 2
\* playAudio calls and /last-audio fetches under way at one time
MaxPlays == 2
\* the length of a decoded unit, in ticks of playback
Duration == 2
\* the largest config.maxHistoryLength a Personality is built with
MaxHistoryLength == 2
\* the largest config.maxTotalChars a Personality is built with
MaxChars == 4
\* the longest message handed to updateHistory
MaxMessageLen == 2
\* requests of all three endpoints the server receives in one run of EndpointSpec
MaxEndpointRequests == 3
\* response files a former run of the server has left in RESPONSES_DIR
MaxLeftover == 5

\* ------------------------------------------------------- program constants
\* the separator of getAndClearPendingTranscriptions: join(" ")
Space == 32
\* the separator of the history text: join('\n')
Newline == 10
\* config.maxHistoryLength || 10
DefaultMaxHistoryLength == 10
\* config.maxTotalChars || 2000
DefaultMaxTotalChars == 2000

\* PersonalityManager.activePersonalities
activePersonalities == <<"advisor", "critic", "supporter">>

\* the keys of the personalities object
PersonalityIds == {"advisor", "critic", "supporter"}

\* process.env.PERSONALITY_MODE as /query-llama reads it
Modes == {"single", "multiple"}
\* INITIAL_DIR/initial_response.mp3, as a file name (response files are named by
\* other numbers)
InitialAudio == 0
\* cleanupOldResponses: files.slice(4) keeps four files besides lastGeneratedAudio
KeepOthers == 4

VARIABLES
    mode,                     \* process.env.PERSONALITY_MODE
    currentPersonalityIndex,  \* PersonalityManager.currentPersonalityIndex (0-based)
    personalities,            \* the Personality objects, by id
    reqs                      \* the /query-llama requests received, in arrival order

VARIABLES
    DEBUG,                \* process.env.DEBUG === 'true'
    lastGeneratedAudio,   \* app.js lastGeneratedAudio: the name of a file
    responsesDir,         \* the files of RESPONSES_DIR, oldest mtime first
    uploadsDir,           \* the files of UPLOADS_DIR
    freqs                 \* the /transcribe and /process-text requests received, in
                          \* arrival order

fileVars == <<DEBUG, lastGeneratedAudio, responsesDir, uploadsDir, freqs>>

serverVars == <<mode, currentPersonalityIndex, personalities, reqs, fileVars>>

VARIABLES
    audioQueue,           \* main.js audioQueue
    currentAudioData,     \* main.js currentAudioData (NoData is null)
    currentAudioElement,  \* main.js currentAudioElement: the number of the playAudio
                          \* call that made the source, 0 is null
    isCurrentlySpeaking,  \* main.js isCurrentlySpeaking
    currentPlaybackTime,  \* main.js currentPlaybackTime
    isFirstSpeech,        \* main.js isFirstSpeech
    pannerNodes,          \* main.js pannerNodes: voice id -> position of its panner
    lastAudioFetches,     \* fetch('/last-audio') promises of onSpeechStart not yet settled
    plays,                \* the playAudio calls under way or with a reachable source,
                          \* in the order they were made
    pipes,                \* the onSpeechEnd runs under way (transcribe, llama, tts), in
                          \* the order they began
    unitsMade             \* how many units processUserSpeech has pushed so far

clientVars == <<audioQueue, currentAudioData, currentAudioElement, isCurrentlySpeaking,
                currentPlaybackTime, isFirstSpeech, pannerNodes, lastAudioFetches,
                plays, pipes, unitsMade>>

vars == <<serverVars, clientVars, fileVars>>

\* ------------------------------------------------------------ strings
\* the one word request number i says (a letter no other request uses)
Word(i) == <<96 + i>>

\* what the model lets the generation service answer
Replies == {<<121>>}

RECURSIVE TrimStart(_)
\* String.prototype.trim, the leading half
TrimStart(s) ==
    IF s # <<>> /\ Head(s) = Space THEN TrimStart(Tail(s)) ELSE s

RECURSIVE TrimEnd(_)
\* String.prototype.trim, the trailing half
TrimEnd(s) ==
    IF s # <<>> /\ s[Len(s)] = Space THEN TrimEnd(SubSeq(s, 1, Len(s) - 1)) ELSE s

\* transcription.trim()
Trim(s) == TrimEnd(TrimStart(s))

RECURSIVE JoinWith(_, _)
\* Array.prototype.join(sep): the elements in order, sep between neighbours
JoinWith(strs, sep) ==
    IF strs = <<>> THEN <<>>
    ELSE IF Len(strs) = 1 THEN strs[1]
    ELSE strs[1] \o <<sep>> \o JoinWith(Tail(strs), sep)

\* ------------------------------------------------------------ Personality
\* new Personality(config), the mutable fields and the two limits
Personality(id) ==
    [id |-> id,
     conversationHistory |-> <<>>,
     maxHistoryLength |-> DefaultMaxHistoryLength,
     maxTotalChars |-> DefaultMaxTotalChars,
     isProcessing |-> FALSE,
     pendingTranscriptions |-> <<>>]

\* conversationHistory.join('\n').length
JoinedLength(h) == Len(JoinWith(h, Newline))

\* a while loop that never drops anything
TrimToCharsNever(h, maxTotalChars) == h

RECURSIVE TrimToCharsUnguarded(_, _)
\* a while loop that goes on below 3 entries
TrimToCharsUnguarded(h, maxTotalChars) ==
    IF JoinedLength(h) > maxTotalChars /\ Len(h) > 0
    THEN TrimToCharsUnguarded(SubSeq(h, 3, Len(h)), maxTotalChars)
    ELSE h

RECURSIVE TrimToChars(_, _)
\* the while loop of updateHistory: splice(0, 2) while over maxTotalChars and
\* more than 2 entries are left
TrimToChars(h, maxTotalChars) ==
    IF JoinedLength(h) > maxTotalChars /\ Len(h) > 2
    THEN TrimToChars(SubSeq(h, 3, Len(h)), maxTotalChars)
    ELSE h

\* new Personality(config) with the two limits given in config; a limit of 0 (or
\* none) is replaced by the default
PersonalityFrom(id, maxHistoryLength, maxTotalChars) ==
    [Personality(id) EXCEPT
        !.maxHistoryLength = IF maxHistoryLength # 0 THEN maxHistoryLength
                             ELSE DefaultMaxHistoryLength,
        !.maxTotalChars = IF maxTotalChars # 0 THEN maxTotalChars
                          ELSE DefaultMaxTotalChars]

\* updateHistory without the test of the entry count
updateHistoryWithoutCountTrim(self, newMessage) ==
    [self EXCEPT !.conversationHistory =
        TrimToChars(Append(self.conversationHistory, newMessage), self.maxTotalChars)]

\* Personality.updateHistory(newMessage): the history afterwards
updateHistory(self, newMessage) ==
    LET pushed == Append(self.conversationHistory, newMessage)
        counted == IF Len(pushed) > self.maxHistoryLength * 2
                   THEN SubSeq(pushed, 3, Len(pushed))
                   ELSE pushed
    IN [self EXCEPT !.conversationHistory = TrimToChars(counted, self.maxTotalChars)]

\* addPendingTranscription that reports the personality idle whatever its flag
addPendingTranscriptionIgnoresFlag(self, transcription) ==
    [self |-> [self EXCEPT !.pendingTranscriptions = Append(@, transcription)],
     ret |-> FALSE]

\* Personality.addPendingTranscription(transcription): the object afterwards and
\* the value returned
addPendingTranscription(self, transcription) ==
    [self |-> [self EXCEPT !.pendingTranscriptions = Append(@, transcription)],
     ret |-> self.isProcessing]

\* getAndClearPendingTranscriptions that forgets to empty the array
getAndKeepPendingTranscriptions(self) ==
    [self |-> self,
     ret |-> JoinWith(self.pendingTranscriptions, Space)]

\* getAndClearPendingTranscriptions that hands back only the newest entry
getAndClearOnlyNewest(self) ==
    [self |-> [self EXCEPT !.pendingTranscriptions = <<>>],
     ret |-> IF self.pendingTranscriptions = <<>> THEN <<>>
             ELSE self.pendingTranscriptions[Len(self.pendingTranscriptions)]]

\* Personality.getAndClearPendingTranscriptions(): the object afterwards and the
\* value returned
getAndClearPendingTranscriptions(self) ==
    [self |-> [self EXCEPT !.pendingTranscriptions = <<>>],
     ret |-> JoinWith(self.pendingTranscriptions, Space)]

\* ----------------------------------------------------- PersonalityManager
\* getNextPersonality that steps the index by two
getNextPersonalitySkipping(index) ==
    [ret |-> activePersonalities[index + 1],
     index |-> (index + 2) % Len(activePersonalities)]

\* PersonalityManager.getNextPersonality(): the id returned and the index afterwards
getNextPersonality(index) ==
    [ret |-> activePersonalities[index + 1],
     index |-> (index + 1) % Len(activePersonalities)]

\* PersonalityManager.getPersonality(id)
getPersonality(id) == IF id \in PersonalityIds THEN id ELSE "advisor"

\* the personality /query-llama selects, and the index afterwards; setPersonality
\* is never called, so currentPersonality stays null in 'single' mode
SelectPersonality(m, index) ==
    IF m = "multiple"
    THEN getNextPersonality(index)
    ELSE [ret |-> getPersonality("advisor"), index |-> index]

\* ------------------------------------------------------------ main.js state
\* null, as the value of currentAudioData
NoData == [uid |-> 0, voiceId |-> "none", position |-> <<>>]

\* personality.position, in half units: {x, y, z} as <<2x, 2y, 2z>>
PositionOf(id) ==
    CASE id = "advisor" -> <<0, 0, 2>>
      [] id = "critic" -> <<-2, 0, 1>>
      [] id = "supporter" -> <<2, 0, 1>>

\* the values of the globals main.js declares
ClientStart ==
    /\ audioQueue = <<>>
    /\ currentAudioData = NoData
    /\ currentAudioElement = 0
    /\ isCurrentlySpeaking = FALSE
    /\ currentPlaybackTime = 0
    /\ isFirstSpeech = TRUE
    /\ pannerNodes = [id \in PersonalityIds |-> <<>>]
    /\ lastAudioFetches = 0
    /\ plays = <<>>
    /\ pipes = <<>>
    /\ unitsMade = 0

\* the files and the file requests when the server starts on empty directories
FileStart ==
    /\ DEBUG = FALSE
    /\ lastGeneratedAudio = InitialAudio
    /\ responsesDir = <<>>
    /\ uploadsDir = {}
    /\ freqs = <<>>

\* ------------------------------------------------------------ /query-llama
\* the request bodies the model sends: no transcription field, "", " ", the
\* request's word, the word after a blank
Bodies(i) ==
    {[has |-> FALSE, transcription |-> <<>>],
     [has |-> TRUE, transcription |-> <<>>],
     [has |-> TRUE, transcription |-> <<Space>>],
     [has |-> TRUE, transcription |-> Word(i)],
     [has |-> TRUE, transcription |-> <<Space>> \o Word(i)]}

\* the empty check without trim()
IsEmptyWithoutTrim(body) ==
    \/ ~body.has
    \/ body.transcription = <<>>

\* !transcription || transcription.trim() === ''
IsEmptyTranscription(body) ==
    \/ ~body.has
    \/ body.transcription = <<>>
    \/ Trim(body.transcription) = <<>>

\* the requests whose handler is suspended in await queryLlama(fullPrompt)
InFlight == {i \in 1..Len(reqs) : reqs[i].st = "awaiting"}

\* app.post('/query-llama'), from the start of the handler to its first await or
\* to the response it sends before any await
QueryLlama(body) ==
    /\ Len(reqs) < MaxRequests
    /\ LET overlapped == InFlight # {}
       IN
       IF IsEmptyTranscription(body)
       THEN /\ reqs' = Append(reqs, [body |-> body, personalityId |-> "none",
                                     st |-> "empty", fullTranscription |-> <<>>,
                                     overlapped |-> overlapped])
            /\ UNCHANGED <<currentPersonalityIndex, personalities>>
       ELSE LET sel == SelectPersonality(mode, currentPersonalityIndex)
                pid == sel.ret
                added == addPendingTranscription(personalities[pid], body.transcription)
            IN
            /\ currentPersonalityIndex' = sel.index
            /\ IF added.ret
               THEN /\ personalities' = [personalities EXCEPT ![pid] = added.self]
                    /\ reqs' = Append(reqs, [body |-> body, personalityId |-> pid,
                                             st |-> "queued", fullTranscription |-> <<>>,
                                             overlapped |-> overlapped])
               ELSE LET busy == [added.self EXCEPT !.isProcessing = TRUE]
                        cleared == getAndClearPendingTranscriptions(busy)
                    IN
                    /\ personalities' =
                           [personalities EXCEPT ![pid] = updateHistory(cleared.self, cleared.ret)]
                    /\ reqs' = Append(reqs, [body |-> body, personalityId |-> pid,
                                             st |-> "awaiting",
                                             fullTranscription |-> cleared.ret,
                                             overlapped |-> overlapped])
    /\ UNCHANGED <<mode, clientVars, fileVars>>

\* a completion that also throws away what was queued meanwhile
LlamaReturnsDroppingPending(i, response) ==
    /\ i \in InFlight
    /\ LET pid == reqs[i].personalityId
           updated == updateHistory(personalities[pid], response)
       IN personalities' = [personalities EXCEPT ![pid] =
              [updated EXCEPT !.isProcessing = FALSE, !.pendingTranscriptions = <<>>]]
    /\ reqs' = [reqs EXCEPT ![i].st = "responded"]
    /\ UNCHANGED <<mode, currentPersonalityIndex, clientVars, fileVars>>

\* a completion whose finally block marks every personality idle
LlamaReturnsReleasesAll(i, response) ==
    /\ i \in InFlight
    /\ LET pid == reqs[i].personalityId
           updated == updateHistory(personalities[pid], response)
       IN personalities' = [p \in PersonalityIds |->
              [(IF p = pid THEN updated ELSE personalities[p]) EXCEPT !.isProcessing = FALSE]]
    /\ reqs' = [reqs EXCEPT ![i].st = "responded"]
    /\ UNCHANGED <<mode, currentPersonalityIndex, clientVars, fileVars>>

\* await queryLlama(fullPrompt) returns: the rest of the try block and finally
LlamaReturns(i, response) ==
    /\ i \in InFlight
    /\ LET pid == reqs[i].personalityId
           updated == updateHistory(personalities[pid], response)
       IN personalities' = [personalities EXCEPT ![pid] = [updated EXCEPT !.isProcessing = FALSE]]
    /\ reqs' = [reqs EXCEPT ![i].st = "responded"]
    /\ UNCHANGED <<mode, currentPersonalityIndex, clientVars, fileVars>>

\* a failure path without the finally block
LlamaThrowsWithoutFinally(i) ==
    /\ i \in InFlight
    /\ reqs' = [reqs EXCEPT ![i].st = "error"]
    /\ UNCHANGED <<mode, currentPersonalityIndex, personalities, clientVars, fileVars>>

\* a failure path that puts the drained inputs back at the head of the queue
LlamaThrowsRequeues(i) ==
    /\ i \in InFlight
    /\ LET pid == reqs[i].personalityId
       IN personalities' = [personalities EXCEPT
              ![pid].isProcessing = FALSE,
              ![pid].pendingTranscriptions = <<reqs[i].fullTranscription>> \o @]
    /\ reqs' = [reqs EXCEPT ![i].st = "error"]
    /\ UNCHANGED <<mode, currentPersonalityIndex, clientVars, fileVars>>

\* await queryLlama(fullPrompt) throws: finally, then the outer catch answers 500
LlamaThrows(i) ==
    /\ i \in InFlight
    /\ LET pid == reqs[i].personalityId
       IN personalities' = [personalities EXCEPT ![pid].isProcessing = FALSE]
    /\ reqs' = [reqs EXCEPT ![i].st = "error"]
    /\ UNCHANGED <<mode, currentPersonalityIndex, clientVars, fileVars>>

\* ------------------------------------------------------------ the server
ServerInit ==
    /\ mode \in Modes
    /\ currentPersonalityIndex = 0
    /\ personalities = [id \in PersonalityIds |-> Personality(id)]
    /\ reqs = <<>>
    /\ ClientStart
    /\ FileStart

ServerNext ==
    \/ \E body \in Bodies(Len(reqs) + 1) : QueryLlama(body)
    \/ \E i \in 1..Len(reqs), response \in Replies : LlamaReturns(i, response)
    \/ \E i \in 1..Len(reqs) : LlamaThrows(i)

ServerSpec == ServerInit /\ [][ServerNext]_vars

\* ------------------------------------------------------------ /transcribe, /process-text
\* the bodies of /transcribe the model sends: no audio field, audio "", audio
\* of one byte
TranscribeBodies ==
    {[has |-> FALSE, payload |-> <<>>, personalityId |-> "absent"],
     [has |-> TRUE, payload |-> <<>>, personalityId |-> "absent"],
     [has |-> TRUE, payload |-> <<119>>, personalityId |-> "absent"]}

\* the bodies of /process-text the model sends: no text field, text "", text
\* "y"; no personalityId, a known one, an unknown one
ProcessTextBodies ==
    {[has |-> h, payload |-> t, personalityId |-> p] :
        h \in BOOLEAN, t \in {<<>>, <<121>>}, p \in {"absent", "critic", "nobody"}}
        \ {[has |-> FALSE, payload |-> <<121>>, personalityId |-> p] :
              p \in {"absent", "critic", "nobody"}}

\* there is room for one more request
EndpointBudget == Len(reqs) + Len(freqs) < MaxEndpointRequests

\* the file requests whose handler is suspended in an await
Awaiting == {i \in 1..Len(freqs) : freqs[i].awaiting}

\* a request as the log keeps it: status 0 and no file until the handler says;
\* a file is named by the number of its request (every request reads its own
\* Date.now())
FileRequest(ep, body) ==
    [ep |-> ep, body |-> body, awaiting |-> FALSE, status |-> 0, file |-> 0]

\* a handler that writes the upload before it looks at the audio field
TranscribeWritesBeforeCheck(body) ==
    /\ EndpointBudget
    /\ LET audioFilePath == Len(freqs) + 1
       IN /\ uploadsDir' = uploadsDir \cup {audioFilePath}
          /\ freqs' = Append(freqs, [FileRequest("transcribe", body) EXCEPT
                          !.awaiting = body.has /\ body.payload # <<>>,
                          !.status = IF body.has /\ body.payload # <<>> THEN 0 ELSE 500,
                          !.file = audioFilePath])
    /\ UNCHANGED <<DEBUG, lastGeneratedAudio, responsesDir,
                   mode, currentPersonalityIndex, personalities, reqs, clientVars>>

\* app.post('/transcribe') up to await transcribeAudio, or to the response of
\* its catch block
Transcribe(body) ==
    /\ EndpointBudget
    /\ IF ~body.has \/ body.payload = <<>>
       THEN /\ freqs' = Append(freqs, [FileRequest("transcribe", body) EXCEPT !.status = 500])
            /\ UNCHANGED uploadsDir
       ELSE LET audioFilePath == Len(freqs) + 1
            IN /\ uploadsDir' = uploadsDir \cup {audioFilePath}
               /\ freqs' = Append(freqs, [FileRequest("transcribe", body) EXCEPT
                                             !.awaiting = TRUE, !.file = audioFilePath])
    /\ UNCHANGED <<DEBUG, lastGeneratedAudio, responsesDir,
                   mode, currentPersonalityIndex, personalities, reqs, clientVars>>

\* transcribeAudio returns: fs.unlinkSync and res.json({transcription})
WhisperReturns(i) ==
    /\ i \in Awaiting
    /\ freqs[i].ep = "transcribe"
    /\ uploadsDir' = uploadsDir \ {freqs[i].file}
    /\ freqs' = [freqs EXCEPT ![i].awaiting = FALSE, ![i].status = 200]
    /\ UNCHANGED <<DEBUG, lastGeneratedAudio, responsesDir,
                   mode, currentPersonalityIndex, personalities, reqs, clientVars>>

\* transcribeAudio throws "Transcription failed": the catch block answers 500
WhisperThrows(i) ==
    /\ i \in Awaiting
    /\ freqs[i].ep = "transcribe"
    /\ freqs' = [freqs EXCEPT ![i].awaiting = FALSE, ![i].status = 500]
    /\ UNCHANGED <<DEBUG, lastGeneratedAudio, responsesDir, uploadsDir,
                   mode, currentPersonalityIndex, personalities, reqs, clientVars>>

\* const { text, personalityId = 'advisor' } = req.body
PersonalityIdOf(body) ==
    IF body.personalityId = "absent" THEN "advisor" ELSE body.personalityId

\* app.post('/process-text') up to await synthesizeSpeech, or to the response it
\* sends before (an error thrown to the catch block, or the DEBUG file)
ProcessText(body) ==
    /\ EndpointBudget
    /\ IF ~body.has \/ body.payload = <<>> \/ PersonalityIdOf(body) \notin PersonalityIds
       THEN freqs' = Append(freqs, [FileRequest("process-text", body) EXCEPT !.status = 500])
       ELSE IF DEBUG
       THEN freqs' = Append(freqs, [FileRequest("process-text", body) EXCEPT !.status = 200])
       ELSE freqs' = Append(freqs, [FileRequest("process-text", body) EXCEPT
                                       !.awaiting = TRUE, !.file = Len(freqs) + 1])
    /\ UNCHANGED <<DEBUG, lastGeneratedAudio, responsesDir, uploadsDir,
                   mode, currentPersonalityIndex, personalities, reqs, clientVars>>

\* the elements of seq that are not in the set gone, in order
Remaining(seq, gone) == SelectSeq(seq, LAMBDA f : f \notin gone)

\* cleanupOldResponses that keeps one file more
cleanupKeepingOneMore(dir, last) ==
    LET files == Remaining(dir, {last})
        filesToDelete == {files[k] : k \in 1..(Len(files) - KeepOthers - 1)}
    IN Remaining(dir, filesToDelete)

\* a cleanup that keeps the oldest files, whatever lastGeneratedAudio names
cleanupKeepingOldest(dir, last) ==
    IF Len(dir) <= KeepOthers THEN dir ELSE SubSeq(dir, 1, KeepOthers)

\* cleanupOldResponses(): the directory afterwards. files is the directory
\* without lastGeneratedAudio; sorted by mtime, newest first, all but its first
\* four are deleted, which are the first Len - 4 of the oldest-first order
cleanupOldResponses(dir, last) ==
    LET files == Remaining(dir, {last})
        filesToDelete == {files[k] : k \in 1..(Len(files) - KeepOthers)}
    IN Remaining(dir, filesToDelete)

\* a synthesis that failed and still left its path in lastGeneratedAudio
SynthesisThrowsAfterAssign(i) ==
    /\ i \in Awaiting
    /\ freqs[i].ep = "process-text"
    /\ lastGeneratedAudio' = freqs[i].file
    /\ freqs' = [freqs EXCEPT ![i].awaiting = FALSE, ![i].status = 500]
    /\ UNCHANGED <<DEBUG, responsesDir, uploadsDir,
                   mode, currentPersonalityIndex, personalities, reqs, clientVars>>

\* synthesizeSpeech returns (it has written the file): lastGeneratedAudio is
\* set, the file is sent, cleanupOldResponses runs
SynthesisReturns(i) ==
    /\ i \in Awaiting
    /\ freqs[i].ep = "process-text"
    /\ lastGeneratedAudio' = freqs[i].file
    /\ responsesDir' = cleanupOldResponses(Append(responsesDir, freqs[i].file),
                                           freqs[i].file)
    /\ freqs' = [freqs EXCEPT ![i].awaiting = FALSE, ![i].status = 200]
    /\ UNCHANGED <<DEBUG, uploadsDir,
                   mode, currentPersonalityIndex, personalities, reqs, clientVars>>

\* synthesizeSpeech throws before it writes: the catch block answers 500
SynthesisThrows(i) ==
    /\ i \in Awaiting
    /\ freqs[i].ep = "process-text"
    /\ freqs' = [freqs EXCEPT ![i].awaiting = FALSE, ![i].status = 500]
    /\ UNCHANGED <<DEBUG, lastGeneratedAudio, responsesDir, uploadsDir,
                   mode, currentPersonalityIndex, personalities, reqs, clientVars>>

\* app.get('/last-audio'): the file sent, or 404
LastAudio ==
    IF lastGeneratedAudio = InitialAudio \/ \E k \in 1..Len(responsesDir) :
                                               responsesDir[k] = lastGeneratedAudio
    THEN [status |-> 200, file |-> lastGeneratedAudio]
    ELSE [status |-> 404, file |-> 0]

\* n response files of a former run, oldest first: the oldest is named -1
Leftover(n) == [k \in 1..n |-> 0 - k]

\* the server starts, in either DEBUG setting, on a RESPONSES_DIR that holds
\* what a former run left there
EndpointInit ==
    /\ mode \in Modes
    /\ currentPersonalityIndex = 0
    /\ personalities = [id \in PersonalityIds |-> Personality(id)]
    /\ reqs = <<>>
    /\ ClientStart
    /\ DEBUG \in BOOLEAN
    /\ lastGeneratedAudio = InitialAudio
    /\ \E n \in 0..MaxLeftover : responsesDir = Leftover(n)
    /\ uploadsDir = {}
    /\ freqs = <<>>

EndpointNext ==
    \/ \E body \in Bodies(Len(reqs) + 1) : EndpointBudget /\ QueryLlama(body)
    \/ \E i \in 1..Len(reqs), response \in Replies : LlamaReturns(i, response)
    \/ \E i \in 1..Len(reqs) : LlamaThrows(i)
    \/ \E body \in TranscribeBodies : Transcribe(body)
    \/ \E i \in 1..Len(freqs) : WhisperReturns(i)
    \/ \E i \in 1..Len(freqs) : WhisperThrows(i)
    \/ \E body \in ProcessTextBodies : ProcessText(body)
    \/ \E i \in 1..Len(freqs) : SynthesisReturns(i)
    \/ \E i \in 1..Len(freqs) : SynthesisThrows(i)

EndpointSpec == EndpointInit /\ [][EndpointNext]_vars

\* ------------------------------------------------------------ updateHistory alone
\* n times the letter c
Repeat(c, n) == [i \in 1..n |-> c]

\* the messages updateHistory is called with: the empty one, and words of one
\* letter ("a" or "b") of every length up to MaxMessageLen
Messages == {<<>>} \cup {Repeat(c, n) : c \in {97, 98}, n \in 1..MaxMessageLen}

\* the personality updateHistory is called on
Subject == personalities["advisor"]

\* personalities.advisor is built with limits from config (maxTotalChars absent
\* or given), the others with the defaults
HistoryInit ==
    /\ mode = "single"
    /\ currentPersonalityIndex = 0
    /\ \E m \in 1..MaxHistoryLength, c \in 0..MaxChars :
           personalities = [id \in PersonalityIds |->
                               IF id = "advisor" THEN PersonalityFrom(id, m, c)
                               ELSE Personality(id)]
    /\ reqs = <<>>
    /\ ClientStart
    /\ FileStart

\* personality.updateHistory(msg)
HistoryUpdate(msg) ==
    /\ personalities' = [personalities EXCEPT !["advisor"] = updateHistory(@, msg)]
    /\ UNCHANGED <<mode, currentPersonalityIndex, reqs, clientVars, fileVars>>

HistoryNext == \E msg \in Messages : HistoryUpdate(msg)

HistorySpec == HistoryInit /\ [][HistoryNext]_vars

\* ------------------------------------------------------------ playAudio
\* the globals playAudio reads and writes, as one value
Globals ==
    [audioQueue |-> audioQueue,
     currentAudioData |-> currentAudioData,
     currentAudioElement |-> currentAudioElement,
     currentPlaybackTime |-> currentPlaybackTime,
     pannerNodes |-> pannerNodes,
     plays |-> plays]

\* play k has returned and nothing refers to its source: the call failed, or its
\* source is silent, has delivered its ended event (or was never started and
\* so has none) and is not currentAudioElement
Unreachable(ps, cur, k) ==
    \/ ps[k].pc = "failed"
    \/ /\ ps[k].pc = "done"
       /\ cur # k
       /\ ~ps[k].endedPending
       /\ ps[k].src \in {"unstarted", "ended", "stopped"}

RECURSIVE KeptFrom(_, _, _)
\* the numbers from k on of the plays that are still reachable, ascending
KeptFrom(ps, cur, k) ==
    IF k > Len(ps) THEN <<>>
    ELSE (IF Unreachable(ps, cur, k) THEN <<>> ELSE <<k>>) \o KeptFrom(ps, cur, k + 1)

\* the garbage collector: the reachable plays in the order they were made, and
\* currentAudioElement renumbered to match
Collect(ps, cur) ==
    LET kept == KeptFrom(ps, cur, 1)
    IN [plays |-> [i \in 1..Len(kept) |-> ps[kept[i]]],
        cur |-> IF cur = 0 THEN 0 ELSE CHOOSE i \in 1..Len(kept) : kept[i] = cur]

\* plays and currentAudioElement become ps and cur
SetPlays(ps, cur) ==
    /\ plays' = Collect(ps, cur).plays
    /\ currentAudioElement' = Collect(ps, cur).cur

\* the globals become g
SetGlobals(g) ==
    /\ audioQueue' = g.audioQueue
    /\ currentAudioData' = g.currentAudioData
    /\ currentPlaybackTime' = g.currentPlaybackTime
    /\ pannerNodes' = g.pannerNodes
    /\ SetPlays(g.plays, g.currentAudioElement)

\* there is room for one more playAudio call
HasRoom == Len(plays) + lastAudioFetches < MaxPlays

\* a playAudio call that has just been entered with data; panner is the key of
\* the node getPersonalityPanner returns to it
NewPlay(data) ==
    [data |-> data, pc |-> "resume", src |-> "none", pos |-> 0, offset |-> 0,
     endedPending |-> FALSE, panner |-> "none"]

\* AudioBufferSourceNode.stop() on the source of play k, when it does not throw:
\* a playing source falls silent (the node keeps no position) and its ended
\* event is queued; a source that has ended already is left as it is
StopSource(ps, k) ==
    IF ps[k].src = "playing"
    THEN [ps EXCEPT ![k].src = "stopped", ![k].pos = 0, ![k].endedPending = TRUE]
    ELSE ps

\* stop() throws InvalidStateError on a source start() was never called on
StopThrows(ps, k) == ps[k].src = "unstarted"

\* getPersonalityPanner that moves an existing panner to the position given
getPersonalityPannerRepositioning(nodes, personalityId, position) ==
    [nodes EXCEPT ![personalityId] = position]

\* getPersonalityPanner(personalityId, position): the map afterwards
getPersonalityPanner(nodes, personalityId, position) ==
    IF nodes[personalityId] = <<>>
    THEN [nodes EXCEPT ![personalityId] = position]
    ELSE nodes

\* currentAudioData !== data, right after currentAudioData = {...data, timestamp}:
\* the object literal is a new object, whatever data is
IsOtherObject(copy, data) == TRUE

\* playAudio from the assignment of currentAudioData to the await of
\* blob.arrayBuffer(), for play k
playAudioLoad(g, k) ==
    LET data == g.plays[k].data
        silenced == IF g.currentAudioElement # 0 /\ ~StopThrows(g.plays, g.currentAudioElement)
                    THEN StopSource(g.plays, g.currentAudioElement)
                    ELSE g.plays
    IN [g EXCEPT !.currentAudioData = data,
                 !.pannerNodes = getPersonalityPanner(@, data.voiceId, data.position),
                 !.currentAudioElement = 0,
                 !.currentPlaybackTime = IF IsOtherObject(data, data) THEN 0 ELSE @,
                 !.plays = [silenced EXCEPT ![k].pc = "decode",
                                            ![k].panner = data.voiceId]]

\* playAudio that plays a unit whatever its position field
playAudioWithoutPositionCheck(g, data, suspended) ==
    IF data = NoData
    THEN g
    ELSE LET entered == [g EXCEPT !.plays = Append(@, NewPlay(data))]
         IN IF suspended THEN entered ELSE playAudioLoad(entered, Len(entered.plays))

\* playAudio(data) up to its first await; suspended says whether
\* audioContext.state === 'suspended' at the call
playAudio(g, data, suspended) ==
    IF data = NoData \/ data.position = <<>>
    THEN g
    ELSE LET entered == [g EXCEPT !.plays = Append(@, NewPlay(data))]
         IN IF suspended THEN entered ELSE playAudioLoad(entered, Len(entered.plays))

\* await audioContext.resume() returns in play k
ResumeReturns(k) ==
    /\ k \in 1..Len(plays)
    /\ plays[k].pc = "resume"
    /\ SetGlobals(playAudioLoad(Globals, k))
    /\ UNCHANGED <<isCurrentlySpeaking, isFirstSpeech, lastAudioFetches, pipes, unitsMade, serverVars>>

\* arrayBuffer() and decodeAudioData() return in play k: the source is made,
\* started if the user is speaking, and becomes currentAudioElement
DecodeReturns(k) ==
    /\ k \in 1..Len(plays)
    /\ plays[k].pc = "decode"
    /\ SetPlays([plays EXCEPT ![k] =
                    IF isCurrentlySpeaking
                    THEN [@ EXCEPT !.pc = "done", !.src = "playing",
                                   !.pos = currentPlaybackTime,
                                   !.offset = currentPlaybackTime]
                    ELSE [@ EXCEPT !.pc = "done", !.src = "unstarted"]],
                k)
    /\ UNCHANGED <<audioQueue, currentAudioData, isCurrentlySpeaking, currentPlaybackTime,
                   isFirstSpeech, pannerNodes, lastAudioFetches, pipes, unitsMade, serverVars>>

\* a catch block that forgets the unit whose decode failed
DecodeThrowsAbandons(k) ==
    /\ k \in 1..Len(plays)
    /\ plays[k].pc = "decode"
    /\ currentAudioData' = NoData
    /\ SetPlays([plays EXCEPT ![k].pc = "failed"], currentAudioElement)
    /\ UNCHANGED <<audioQueue, isCurrentlySpeaking,
                   currentPlaybackTime, isFirstSpeech, pannerNodes, lastAudioFetches,
                   pipes, unitsMade, serverVars>>

\* arrayBuffer() or decodeAudioData() throws in play k: the catch block logs
DecodeThrows(k) ==
    /\ k \in 1..Len(plays)
    /\ plays[k].pc = "decode"
    /\ SetPlays([plays EXCEPT ![k].pc = "failed"], currentAudioElement)
    /\ UNCHANGED <<audioQueue, currentAudioData, isCurrentlySpeaking,
                   currentPlaybackTime, isFirstSpeech, pannerNodes, lastAudioFetches,
                   pipes, unitsMade, serverVars>>

\* the source of play k plays for one tick; at the end of its buffer it stops
\* and its ended event is queued
Tick(k) ==
    /\ k \in 1..Len(plays)
    /\ plays[k].src = "playing"
    /\ SetPlays([plays EXCEPT ![k] =
                    IF @.pos + 1 >= Duration
                    THEN [@ EXCEPT !.pos = Duration, !.src = "ended", !.endedPending = TRUE]
                    ELSE [@ EXCEPT !.pos = @ + 1]],
                currentAudioElement)
    /\ UNCHANGED <<audioQueue, currentAudioData, isCurrentlySpeaking,
                   currentPlaybackTime, isFirstSpeech, pannerNodes, lastAudioFetches,
                   pipes, unitsMade, serverVars>>

\* the source of play k has played its buffer to the end
PlayedThrough(ps, k) == ps[k].src = "ended" /\ ps[k].pos = Duration

\* source.onended that does not look at isCurrentlySpeaking
OnEndedIgnoresSpeaking(k, suspended) ==
    /\ k \in 1..Len(plays)
    /\ plays[k].endedPending
    /\ LET g == [Globals EXCEPT !.plays[k].endedPending = FALSE]
       IN IF Len(audioQueue) > 0
          THEN /\ HasRoom
               /\ SetGlobals(playAudio([g EXCEPT !.currentPlaybackTime = 0,
                                                 !.audioQueue = Tail(@)],
                                       Head(audioQueue), suspended))
          ELSE /\ ~suspended
               /\ SetGlobals(g)
    /\ UNCHANGED <<isCurrentlySpeaking, isFirstSpeech, lastAudioFetches, pipes, unitsMade, serverVars>>

\* source.onended of play k
OnEnded(k, suspended) ==
    /\ k \in 1..Len(plays)
    /\ plays[k].endedPending
    /\ LET g == [Globals EXCEPT !.plays[k].endedPending = FALSE]
       IN IF isCurrentlySpeaking /\ Len(audioQueue) > 0
          THEN /\ HasRoom
               /\ SetGlobals(playAudio([g EXCEPT !.currentPlaybackTime = 0,
                                                 !.audioQueue = Tail(@)],
                                       Head(audioQueue), suspended))
          ELSE /\ ~suspended
               /\ SetGlobals(g)
    /\ UNCHANGED <<isCurrentlySpeaking, isFirstSpeech, lastAudioFetches, pipes, unitsMade, serverVars>>

\* ------------------------------------------------------------ the VAD handlers
\* onSpeechStart without the branch that plays the current unit again
SpeechStartNeverResumes(suspended) ==
    /\ isCurrentlySpeaking' = TRUE
    /\ IF isFirstSpeech
       THEN /\ HasRoom
            /\ ~suspended
            /\ lastAudioFetches' = lastAudioFetches + 1
            /\ UNCHANGED <<audioQueue, currentAudioData, currentAudioElement,
                           currentPlaybackTime, pannerNodes, plays>>
       ELSE IF Len(audioQueue) > 0
       THEN /\ HasRoom
            /\ SetGlobals(playAudio([Globals EXCEPT !.currentAudioData = NoData,
                                                    !.audioQueue = Tail(@)],
                                    Head(audioQueue), suspended))
            /\ UNCHANGED lastAudioFetches
       ELSE /\ ~suspended
            /\ UNCHANGED <<audioQueue, currentAudioData, currentAudioElement,
                           currentPlaybackTime, pannerNodes, plays, lastAudioFetches>>
    /\ UNCHANGED <<isFirstSpeech, pipes, unitsMade, serverVars>>

\* onSpeechStart that fetches /last-audio whenever it finds nothing to play
SpeechStartRefetches(suspended) ==
    /\ isCurrentlySpeaking' = TRUE
    /\ IF isFirstSpeech
       THEN /\ HasRoom
            /\ ~suspended
            /\ lastAudioFetches' = lastAudioFetches + 1
            /\ UNCHANGED <<audioQueue, currentAudioData, currentAudioElement,
                           currentPlaybackTime, pannerNodes, plays>>
       ELSE IF Len(audioQueue) > 0
       THEN /\ HasRoom
            /\ SetGlobals(playAudio([Globals EXCEPT !.currentAudioData = NoData,
                                                    !.audioQueue = Tail(@)],
                                    Head(audioQueue), suspended))
            /\ UNCHANGED lastAudioFetches
       ELSE IF currentAudioData # NoData
       THEN /\ HasRoom
            /\ SetGlobals(playAudio(Globals, currentAudioData, suspended))
            /\ UNCHANGED lastAudioFetches
       ELSE /\ HasRoom
            /\ ~suspended
            /\ lastAudioFetches' = lastAudioFetches + 1
            /\ UNCHANGED <<audioQueue, currentAudioData, currentAudioElement,
                           currentPlaybackTime, pannerNodes, plays>>
    /\ UNCHANGED <<isFirstSpeech, pipes, unitsMade, serverVars>>

\* vadConfig.onSpeechStart
SpeechStart(suspended) ==
    /\ isCurrentlySpeaking' = TRUE
    /\ IF isFirstSpeech
       THEN /\ HasRoom
            /\ ~suspended
            /\ lastAudioFetches' = lastAudioFetches + 1
            /\ UNCHANGED <<audioQueue, currentAudioData, currentAudioElement,
                           currentPlaybackTime, pannerNodes, plays>>
       ELSE IF Len(audioQueue) > 0
       THEN /\ HasRoom
            /\ SetGlobals(playAudio([Globals EXCEPT !.currentAudioData = NoData,
                                                    !.audioQueue = Tail(@)],
                                    Head(audioQueue), suspended))
            /\ UNCHANGED lastAudioFetches
       ELSE IF currentAudioData # NoData
       THEN /\ HasRoom
            /\ SetGlobals(playAudio(Globals, currentAudioData, suspended))
            /\ UNCHANGED lastAudioFetches
       ELSE /\ ~suspended
            /\ UNCHANGED <<audioQueue, currentAudioData, currentAudioElement,
                           currentPlaybackTime, pannerNodes, plays, lastAudioFetches>>
    /\ UNCHANGED <<isFirstSpeech, pipes, unitsMade, serverVars>>

\* the unit onSpeechStart builds from the blob of /last-audio
BootstrapUnit == [uid |-> 0 - 1, voiceId |-> "advisor", position |-> <<0, 0, 2>>]

\* fetch('/last-audio') answers 200 and response.blob() returns
LastAudioOk(suspended) ==
    /\ lastAudioFetches > 0
    /\ lastAudioFetches' = lastAudioFetches - 1
    /\ SetGlobals(playAudio(Globals, BootstrapUnit, suspended))
    /\ isFirstSpeech' = FALSE
    /\ UNCHANGED <<isCurrentlySpeaking, pipes, unitsMade, serverVars>>

\* fetch('/last-audio') answers 404
LastAudioNotOk ==
    /\ lastAudioFetches > 0
    /\ lastAudioFetches' = lastAudioFetches - 1
    /\ isFirstSpeech' = FALSE
    /\ UNCHANGED <<audioQueue, currentAudioData, currentAudioElement, isCurrentlySpeaking,
                   currentPlaybackTime, pannerNodes, plays, pipes, unitsMade, serverVars>>

\* fetch('/last-audio') or response.blob() rejects: the then callback never
\* reaches isFirstSpeech = false
LastAudioRejects ==
    /\ lastAudioFetches > 0
    /\ lastAudioFetches' = lastAudioFetches - 1
    /\ UNCHANGED <<audioQueue, currentAudioData, currentAudioElement, isCurrentlySpeaking,
                   currentPlaybackTime, isFirstSpeech, pannerNodes, plays, pipes,
                   unitsMade, serverVars>>

\* vadConfig.onSpeechEnd up to await fetch('/transcribe'); the VAD ends only a
\* speech it has started
SpeechEnd ==
    /\ isCurrentlySpeaking
    /\ Len(pipes) + unitsMade < MaxUtterances
    /\ isCurrentlySpeaking' = FALSE
    /\ IF currentAudioElement # 0 /\ ~StopThrows(plays, currentAudioElement)
       THEN SetPlays(StopSource(plays, currentAudioElement), 0)
       ELSE UNCHANGED <<plays, currentAudioElement>>
    /\ pipes' = Append(pipes, [stage |-> "transcribe", personalityId |-> "none",
                                position |-> <<>>, transcription |-> <<>>])
    /\ UNCHANGED <<audioQueue, currentAudioData, currentPlaybackTime, isFirstSpeech,
                   pannerNodes, lastAudioFetches, unitsMade, serverVars>>

\* ------------------------------------------------------------ the pipeline
\* what /transcribe may answer for an utterance: nothing, a blank, a word
Transcripts == {<<>>, <<Space>>, Word(1)}

\* the runs under way without run n, which has returned
Without(n) == [i \in 1..(Len(pipes) - 1) |-> IF i < n THEN pipes[i] ELSE pipes[i + 1]]

\* onSpeechEnd that hands any transcript to processUserSpeech
TranscribeReturnsAnyText(n, text) ==
    /\ n \in 1..Len(pipes)
    /\ pipes[n].stage = "transcribe"
    /\ pipes' = [pipes EXCEPT ![n].stage = "llama", ![n].transcription = text]
    /\ UNCHANGED <<audioQueue, currentAudioData, currentAudioElement, isCurrentlySpeaking,
                   currentPlaybackTime, isFirstSpeech, pannerNodes, lastAudioFetches,
                   plays, unitsMade, serverVars>>

\* fetch('/transcribe') answers 200 with transcription text; a transcript that
\* is empty after trim ends the run, any other goes to processUserSpeech, which
\* awaits fetch('/query-llama')
TranscribeReturns(n, text) ==
    /\ n \in 1..Len(pipes)
    /\ pipes[n].stage = "transcribe"
    /\ pipes' = IF Trim(text) # <<>>
                THEN [pipes EXCEPT ![n].stage = "llama", ![n].transcription = text]
                ELSE Without(n)
    /\ UNCHANGED <<audioQueue, currentAudioData, currentAudioElement, isCurrentlySpeaking,
                   currentPlaybackTime, isFirstSpeech, pannerNodes, lastAudioFetches,
                   plays, unitsMade, serverVars>>

\* a fetch of the run fails or answers with an error status: the catch block of
\* its stage ends the run
StageFails(n) ==
    /\ n \in 1..Len(pipes)
    /\ pipes' = Without(n)
    /\ UNCHANGED <<audioQueue, currentAudioData, currentAudioElement, isCurrentlySpeaking,
                   currentPlaybackTime, isFirstSpeech, pannerNodes, lastAudioFetches,
                   plays, unitsMade, serverVars>>

\* /query-llama selects the personality (moving the round-robin index) and
\* answers {queued: true}: processUserSpeech returns
LlamaQueued(n) ==
    /\ n \in 1..Len(pipes)
    /\ pipes[n].stage = "llama"
    /\ currentPersonalityIndex' = SelectPersonality(mode, currentPersonalityIndex).index
    /\ pipes' = Without(n)
    /\ UNCHANGED <<audioQueue, currentAudioData, currentAudioElement, isCurrentlySpeaking,
                   currentPlaybackTime, isFirstSpeech, pannerNodes, lastAudioFetches,
                   plays, unitsMade, mode, personalities, reqs, fileVars>>

\* /query-llama selects the personality (moving the round-robin index) and
\* answers {response, personalityId, position}: processUserSpeech awaits
\* fetch('/process-text')
LlamaDispatched(n) ==
    /\ n \in 1..Len(pipes)
    /\ pipes[n].stage = "llama"
    /\ LET sel == SelectPersonality(mode, currentPersonalityIndex)
       IN /\ currentPersonalityIndex' = sel.index
          /\ pipes' = [pipes EXCEPT ![n] = [stage |-> "tts", personalityId |-> sel.ret,
                                            position |-> PositionOf(sel.ret),
                                            transcription |-> pipes[n].transcription]]
    /\ UNCHANGED <<audioQueue, currentAudioData, currentAudioElement, isCurrentlySpeaking,
                   currentPlaybackTime, isFirstSpeech, pannerNodes, lastAudioFetches,
                   plays, unitsMade, mode, personalities, reqs, fileVars>>

\* the position fields a /query-llama response can carry: none, or any of the
\* positions in use
AnyPositions == {<<>>} \cup {PositionOf(id) : id \in PersonalityIds}

\* a /query-llama response {response, personalityId, position} as processUserSpeech
\* takes it from the JSON, whatever server wrote it: any personality id, and
\* any position or none
LlamaAnswersAny(n, personalityId, position) ==
    /\ n \in 1..Len(pipes)
    /\ pipes[n].stage = "llama"
    /\ pipes' = [pipes EXCEPT ![n] = [stage |-> "tts", personalityId |-> personalityId,
                                      position |-> position,
                                      transcription |-> pipes[n].transcription]]
    /\ UNCHANGED <<audioQueue, currentAudioData, currentAudioElement, isCurrentlySpeaking,
                   currentPlaybackTime, isFirstSpeech, pannerNodes, lastAudioFetches,
                   plays, unitsMade, serverVars>>

\* processUserSpeech that plays the new unit at once when the user is speaking
\* and there is no current source
ProcessTextReturnsAndPlays(n) ==
    /\ n \in 1..Len(pipes)
    /\ pipes[n].stage = "tts"
    /\ LET unit == [uid |-> unitsMade + 1, voiceId |-> pipes[n].personalityId,
                    position |-> pipes[n].position]
       IN IF isCurrentlySpeaking /\ currentAudioElement = 0 /\ HasRoom
          THEN SetGlobals(playAudio(Globals, unit, FALSE))
          ELSE /\ audioQueue' = Append(audioQueue, unit)
               /\ UNCHANGED <<currentAudioData, currentAudioElement, currentPlaybackTime,
                              pannerNodes, plays>>
    /\ unitsMade' = unitsMade + 1
    /\ pipes' = Without(n)
    /\ UNCHANGED <<isCurrentlySpeaking, isFirstSpeech, lastAudioFetches, serverVars>>

\* processUserSpeech that puts the new unit at the front of the queue
ProcessTextReturnsUnshifts(n) ==
    /\ n \in 1..Len(pipes)
    /\ pipes[n].stage = "tts"
    /\ audioQueue' = <<[uid |-> unitsMade + 1, voiceId |-> pipes[n].personalityId,
                        position |-> pipes[n].position]>> \o audioQueue
    /\ unitsMade' = unitsMade + 1
    /\ pipes' = Without(n)
    /\ UNCHANGED <<currentAudioData, currentAudioElement, isCurrentlySpeaking,
                   currentPlaybackTime, isFirstSpeech, pannerNodes, lastAudioFetches,
                   plays, serverVars>>

\* /process-text answers 200 and response.blob() returns: audioQueue.push
ProcessTextReturns(n) ==
    /\ n \in 1..Len(pipes)
    /\ pipes[n].stage = "tts"
    /\ audioQueue' = Append(audioQueue,
           [uid |-> unitsMade + 1, voiceId |-> pipes[n].personalityId,
            position |-> pipes[n].position])
    /\ unitsMade' = unitsMade + 1
    /\ pipes' = Without(n)
    /\ UNCHANGED <<currentAudioData, currentAudioElement, isCurrentlySpeaking,
                   currentPlaybackTime, isFirstSpeech, pannerNodes, lastAudioFetches,
                   plays, serverVars>>

\* ------------------------------------------------------------ the client
ClientInit ==
    /\ ClientStart
    /\ FileStart
    /\ mode \in Modes
    /\ currentPersonalityIndex = 0
    /\ personalities = [id \in PersonalityIds |-> Personality(id)]
    /\ reqs = <<>>

ClientNext ==
    \/ \E suspended \in BOOLEAN : SpeechStart(suspended)
    \/ SpeechEnd
    \/ \E suspended \in BOOLEAN : LastAudioOk(suspended)
    \/ LastAudioNotOk
    \/ LastAudioRejects
    \/ \E k \in 1..Len(plays) : ResumeReturns(k)
    \/ \E k \in 1..Len(plays) : DecodeReturns(k)
    \/ \E k \in 1..Len(plays) : DecodeThrows(k)
    \/ \E k \in 1..Len(plays) : Tick(k)
    \/ \E k \in 1..Len(plays), suspended \in BOOLEAN : OnEnded(k, suspended)
    \/ \E n \in 1..Len(pipes), text \in Transcripts : TranscribeReturns(n, text)
    \/ \E n \in 1..Len(pipes) : StageFails(n)
    \/ \E n \in 1..Len(pipes) : LlamaQueued(n)
    \/ \E n \in 1..Len(pipes) : LlamaDispatched(n)
    \/ \E n \in 1..Len(pipes) : ProcessTextReturns(n)

ClientSpec == ClientInit /\ [][ClientNext]_vars

\* a fetch('/last-audio') settles, one way or another
LastAudioSettles ==
    \/ \E suspended \in BOOLEAN : LastAudioOk(suspended)
    \/ LastAudioNotOk
    \/ LastAudioRejects

\* an await of some playAudio call (resume, arrayBuffer, decodeAudioData)
\* settles, one way or another
PlayAwaitSettles ==
    \E k \in 1..Len(plays) : ResumeReturns(k) \/ DecodeReturns(k) \/ DecodeThrows(k)

\* a fetch of some onSpeechEnd run settles, one way or another
PipelineFetchSettles ==
    \E n \in 1..Len(pipes) :
        \/ \E text \in Transcripts : TranscribeReturns(n, text)
        \/ StageFails(n)
        \/ LlamaQueued(n)
        \/ LlamaDispatched(n)
        \/ ProcessTextReturns(n)

\* the client when the user keeps starting to speak, every fetch and every
\* await of playAudio settles, sources play on and the events queued by the
\* browser are delivered
LiveClientSpec ==
    /\ ClientSpec
    /\ SF_vars(\E suspended \in BOOLEAN : SpeechStart(suspended))
    /\ WF_vars(LastAudioSettles)
    /\ WF_vars(PlayAwaitSettles)
    /\ WF_vars(PipelineFetchSettles)
    /\ WF_vars(\E k \in 1..Len(plays) : Tick(k))
    /\ WF_vars(\E k \in 1..Len(plays), suspended \in BOOLEAN : OnEnded(k, suspended))

\* the client against any server: the /query-llama response is not bound to
\* what app.js writes
AnyServerNext ==
    \/ ClientNext
    \/ \E n \in 1..Len(pipes), id \in PersonalityIds, position \in AnyPositions :
          LlamaAnswersAny(n, id, position)

AnyServerSpec == ClientInit /\ [][AnyServerNext]_vars

\* =================================================================== claims
\* ---- helpers of the server claims
\* the requests that got past the empty-transcription check
Accepted == {i \in 1..Len(reqs) : reqs[i].st # "empty"}

\* the requests for which a generation call was started
Dispatched == {i \in 1..Len(reqs) : reqs[i].st \in {"awaiting", "responded", "error"}}

\* the generation calls in flight for personality p
InFlightFor(p) == {i \in InFlight : reqs[i].personalityId = p}

\* how many times the string sub occurs in the string s
Occurrences(sub, s) ==
    Cardinality({k \in 1..(Len(s) - Len(sub) + 1) : SubSeq(s, k, k + Len(sub) - 1) = sub})

\* how many entries of the array arr equal the string t
EntriesEqual(t, arr) == Cardinality({k \in 1..Len(arr) : arr[k] = t})

RECURSIVE SumOver(_, _)
\* the sum of f over the finite set S
SumOver(f, S) ==
    IF S = {} THEN 0
    ELSE LET x == CHOOSE y \in S : TRUE IN f[x] + SumOver(f, S \ {x})

\* in how many combined prompts dispatched for personality p the transcription
\* of request i occurs, occurrences counted
TimesDispatched(i, p) ==
    LET t == reqs[i].body.transcription
        D == {j \in Dispatched : reqs[j].personalityId = p}
    IN SumOver([j \in D |-> Occurrences(t, reqs[j].fullTranscription)], D)

RECURSIVE SpaceJoined(_)
\* the inputs of strs in order with exactly one blank between neighbours, built
\* from the right
SpaceJoined(strs) ==
    IF strs = <<>> THEN <<>>
    ELSE IF Len(strs) = 1 THEN strs[1]
    ELSE SpaceJoined(SubSeq(strs, 1, Len(strs) - 1)) \o <<Space>> \o strs[Len(strs)]

\* this step is the arrival of a new /query-llama request
Arrives == Len(reqs') = Len(reqs) + 1

\* the request that arrives in this step
Arrived == reqs'[Len(reqs')]

\* this step ends the generation call of request i
Ends(i) == i \in InFlight /\ reqs'[i].st # "awaiting"

\* C1: for each personality at most one generation call is in flight
C1_OneGenerationPerPersonality ==
    \A p \in PersonalityIds : Cardinality(InFlightFor(p)) <= 1

\* C1 witness: a request reached a personality whose generation is in flight
C1_Witness ==
    \E i, j \in 1..Len(reqs) :
        /\ i < j
        /\ reqs[i].st = "awaiting"
        /\ reqs[j].st = "queued"
        /\ reqs[j].personalityId = reqs[i].personalityId

\* C2: every accepted transcription is, counting all places, exactly once either
\* an entry of its personality's pendingTranscriptions or part of a combined
\* prompt dispatched for that personality, and nowhere at another personality
C2_NoInputLostOrDuplicated ==
    \A i \in Accepted :
        LET t == reqs[i].body.transcription
            own == reqs[i].personalityId
        IN \A p \in PersonalityIds :
               EntriesEqual(t, personalities[p].pendingTranscriptions) + TimesDispatched(i, p)
                   = IF p = own THEN 1 ELSE 0

\* C2 witness: an input queued behind a generation was later dispatched, together
\* with a newer input, while a third waits behind that dispatch
C2_Witness ==
    \E i, j, k \in 1..Len(reqs) :
        /\ i < j /\ j < k
        /\ reqs[i].st = "queued"
        /\ reqs[j].st = "awaiting"
        /\ reqs[k].st = "queued"
        /\ reqs[j].personalityId = reqs[i].personalityId
        /\ reqs[k].personalityId = reqs[i].personalityId
        /\ TimesDispatched(i, reqs[i].personalityId) = 1
        /\ EntriesEqual(reqs[k].body.transcription,
                        personalities[reqs[k].personalityId].pendingTranscriptions) = 1

\* C5: in a step that starts a dispatch for p, the user prompt appended to p's
\* history is every input then pending (the arriving one last) joined by single
\* blanks in submission order, and pendingTranscriptions is empty afterwards
C5_DispatchStep ==
    \A p \in PersonalityIds :
        (~personalities[p].isProcessing /\ personalities'[p].isProcessing) =>
            LET inputs == Append(personalities[p].pendingTranscriptions,
                                 Arrived.body.transcription)
                h == personalities'[p].conversationHistory
            IN /\ Arrives
               /\ Arrived.personalityId = p
               /\ Len(h) = Len(personalities[p].conversationHistory) + 1
               /\ h[Len(h)] = SpaceJoined(inputs)
               /\ Arrived.fullTranscription = SpaceJoined(inputs)
               /\ personalities'[p].pendingTranscriptions = <<>>

C5_CombinedPromptIsSpaceJoin == [][C5_DispatchStep]_vars

\* C5 witness: a dispatch has combined at least two inputs
C5_Witness ==
    \E i, j \in 1..Len(reqs) :
        /\ i < j
        /\ reqs[i].st = "queued"
        /\ reqs[j].st \in {"awaiting", "responded", "error"}
        /\ reqs[j].personalityId = reqs[i].personalityId
        /\ reqs[j].fullTranscription =
               reqs[i].body.transcription \o <<Space>> \o reqs[j].body.transcription
        /\ personalities[reqs[j].personalityId].pendingTranscriptions = <<>>

\* C6: the step in which a generation call returns or throws leaves its
\* personality's isProcessing false, and a non-empty request for a personality
\* with no call in flight is dispatched, never answered 'queued'
C6_EndStep ==
    /\ \A i \in 1..Len(reqs) :
           Ends(i) => ~personalities'[reqs[i].personalityId].isProcessing
    /\ (Arrives /\ Arrived.st # "empty" /\ InFlightFor(Arrived.personalityId) = {})
           => Arrived.st = "awaiting"

C6_BusyFlagReleased == [][C6_EndStep]_vars

\* C6 witness: a generation failed and a later request for the same personality
\* was dispatched
C6_Witness ==
    \E i, j \in 1..Len(reqs) :
        /\ i < j
        /\ reqs[i].st = "error"
        /\ reqs[j].st = "awaiting"
        /\ reqs[j].personalityId = reqs[i].personalityId

\* C8: (a) a request that reaches a busy personality is answered 'queued' and
\* only appended to pendingTranscriptions; (b) the end of a generation call
\* leaves every pendingTranscriptions as it was, the personality idle, and starts
\* no call; (c) pendingTranscriptions loses entries only when a new request
\* reaches the idle personality, whose combined prompt then holds the old
\* entries before the new input
C8_Step ==
    /\ \A p \in PersonalityIds :
           (Arrives /\ Arrived.personalityId = p /\ personalities[p].isProcessing) =>
               /\ Arrived.st = "queued"
               /\ personalities'[p] =
                      [personalities[p] EXCEPT !.pendingTranscriptions =
                          Append(@, Arrived.body.transcription)]
    /\ \A i \in 1..Len(reqs) :
           Ends(i) =>
               /\ \A p \in PersonalityIds :
                      personalities'[p].pendingTranscriptions =
                          personalities[p].pendingTranscriptions
               /\ ~personalities'[reqs[i].personalityId].isProcessing
               /\ {j \in 1..Len(reqs') : reqs'[j].st = "awaiting"} = InFlight \ {i}
    /\ \A p \in PersonalityIds :
           LET old == personalities[p].pendingTranscriptions
               new == personalities'[p].pendingTranscriptions
           IN (Len(new) < Len(old) \/ SubSeq(new, 1, Len(old)) # old) =>
                  /\ Arrives
                  /\ Arrived.personalityId = p
                  /\ ~personalities[p].isProcessing
                  /\ Arrived.st = "awaiting"
                  /\ Arrived.fullTranscription =
                         SpaceJoined(old) \o <<Space>> \o Arrived.body.transcription

C8_QueuedWaitsForNextSubmission == [][C8_Step]_vars

\* C8 witness: x was queued behind a generation, that generation has ended, and a
\* later request dispatched x in front of its own input
C8_Witness ==
    \E g, x, n \in 1..Len(reqs) :
        /\ g < x /\ x < n
        /\ reqs[g].st \in {"responded", "error"}
        /\ reqs[x].st = "queued"
        /\ reqs[n].st \in {"awaiting", "responded", "error"}
        /\ reqs[x].personalityId = reqs[g].personalityId
        /\ reqs[n].personalityId = reqs[g].personalityId
        /\ reqs[n].fullTranscription =
               reqs[x].body.transcription \o <<Space>> \o reqs[n].body.transcription

\* C9: in 'multiple' mode, while every request so far was non-empty and arrived
\* with no generation in flight, request number i (from 0) went to personality
\* number i mod 3
C9_RoundRobinOrder ==
    (mode = "multiple" /\ \A i \in 1..Len(reqs) : reqs[i].st # "empty" /\ ~reqs[i].overlapped)
        => \A i \in 1..Len(reqs) :
               reqs[i].personalityId = activePersonalities[((i - 1) % 3) + 1]

\* C9 witness: four sequential submissions, the fourth back at the first personality
C9_Witness ==
    /\ mode = "multiple"
    /\ Len(reqs) = 4
    /\ \A i \in 1..Len(reqs) : reqs[i].st \in {"responded", "error"} /\ ~reqs[i].overlapped
    /\ <<reqs[1].personalityId, reqs[2].personalityId, reqs[3].personalityId,
         reqs[4].personalityId>> = <<"advisor", "critic", "supporter", "advisor">>

\* C10 as claimed: in 'multiple' mode the index advances by one on a dispatched
\* request and stays on a request answered 'queued'
C10_ClaimedStep ==
    (mode = "multiple" /\ Arrives) =>
        /\ Arrived.st = "awaiting" =>
               currentPersonalityIndex' = (currentPersonalityIndex + 1) % 3
        /\ Arrived.st = "queued" => currentPersonalityIndex' = currentPersonalityIndex

C10_PointerStaysOnQueued == [][C10_ClaimedStep]_vars

\* C10 amended: in 'multiple' mode the index advances by one on every non-empty
\* request, dispatched or answered 'queued', and no other step moves it
C10_AmendedStep ==
    mode = "multiple" =>
        IF Arrives /\ Arrived.st \in {"awaiting", "queued"}
        THEN currentPersonalityIndex' = (currentPersonalityIndex + 1) % 3
        ELSE currentPersonalityIndex' = currentPersonalityIndex

C10_PointerAdvancesOnEveryAccepted == [][C10_AmendedStep]_vars

\* C10 witness: in 'multiple' mode a request was answered 'queued' and the index
\* counts it
C10_Witness ==
    /\ mode = "multiple"
    /\ \E i \in 1..Len(reqs) : reqs[i].st = "queued"
    /\ currentPersonalityIndex = Cardinality(Accepted) % 3

\* C11: after every updateHistory call the history has at most
\* 2 * maxHistoryLength entries
C11_HistoryCountBound ==
    Len(Subject.conversationHistory) <= 2 * Subject.maxHistoryLength

\* C11 witness: the history is full under a count limit of 2 pairs and the
\* default character limit, so the next call has to drop a pair
C11_Witness ==
    /\ Subject.maxHistoryLength = 2
    /\ Subject.maxTotalChars = DefaultMaxTotalChars
    /\ Len(Subject.conversationHistory) = 4
    /\ Subject.conversationHistory[1] = <<97, 97>>

\* some entry of the history is by itself longer than the character limit
SomeEntryTooLong ==
    \E k \in 1..Len(Subject.conversationHistory) :
        Len(Subject.conversationHistory[k]) > Subject.maxTotalChars

\* C12 as claimed: the joined history is within maxTotalChars unless one entry
\* alone is longer than maxTotalChars
C12_CharBoundUnlessOneEntryTooLong ==
    JoinedLength(Subject.conversationHistory) > Subject.maxTotalChars => SomeEntryTooLong

\* C12 amended: the joined history is within maxTotalChars unless at most two
\* entries are left
C12_CharBoundUnlessTwoLeft ==
    JoinedLength(Subject.conversationHistory) > Subject.maxTotalChars
        => Len(Subject.conversationHistory) <= 2

\* C12 witness: two entries are left, each within the limit, and their join is
\* over it
C12_Witness ==
    /\ Len(Subject.conversationHistory) = 2
    /\ ~SomeEntryTooLong
    /\ JoinedLength(Subject.conversationHistory) > Subject.maxTotalChars

\* ---- helpers of the client claims
\* this step is a run of onSpeechStart
SpeechStarts == \E suspended \in BOOLEAN : SpeechStart(suspended)

\* the sources that are audibly playing
Audible == {k \in 1..Len(plays) : plays[k].src = "playing"}

\* in this step playAudio was entered for unit data, the queue head before
DequeuedAndPlayed(data) ==
    /\ audioQueue' = Tail(audioQueue)
    /\ Len(plays') >= 1
    /\ LET new == plays'[Len(plays')]
       IN /\ new.data = data
          /\ new.src = "none"
          /\ \/ new.pc = "resume" /\ currentAudioData' = NoData
             \/ new.pc = "decode" /\ currentAudioData' = data /\ currentAudioElement' = 0
    /\ currentPlaybackTime' = 0

\* in this step a source was started, and it was started at offset 0
StartsAtZero ==
    \A k \in 1..Len(plays) :
        (DecodeReturns(k) /\ isCurrentlySpeaking) =>
            \E j \in 1..Len(plays') :
                /\ plays'[j].data = plays[k].data
                /\ plays'[j].src = "playing"
                /\ plays'[j].offset = 0
                /\ plays'[j].pos = 0
                /\ currentAudioElement' = j

\* C3 as claimed: while isCurrentlySpeaking is false no source is audibly playing
C3_SilentWhileNotSpeaking == ~isCurrentlySpeaking => Audible = {}

\* C4 as claimed: every onSpeechStart with a non-empty queue dequeues the head,
\* drops the current unit and offset and plays the head from 0
C4_ClaimedStep ==
    /\ (SpeechStarts /\ Len(audioQueue) > 0) => DequeuedAndPlayed(Head(audioQueue))
    /\ StartsAtZero

C4_QueueHeadAlwaysPreferred == [][C4_ClaimedStep]_vars

\* C7 as claimed: onSpeechEnd on a playing unit saves its elapsed time in
\* currentPlaybackTime, a resuming onSpeechStart keeps the unit and that offset,
\* and the source then starts at currentPlaybackTime
C7_ClaimedStep ==
    /\ (SpeechEnd /\ currentAudioElement # 0 /\ plays[currentAudioElement].src = "playing")
           => currentPlaybackTime' = plays[currentAudioElement].pos
    /\ (SpeechStarts /\ ~isFirstSpeech /\ Len(audioQueue) = 0 /\ currentAudioData # NoData)
           => /\ currentPlaybackTime' = currentPlaybackTime
              /\ currentAudioData' \in {currentAudioData}
    /\ \A k \in 1..Len(plays) :
           (DecodeReturns(k) /\ isCurrentlySpeaking) =>
               \E j \in 1..Len(plays') :
                   plays'[j].src = "playing" /\ plays'[j].offset = currentPlaybackTime

C7_ResumeFromSavedOffset == [][C7_ClaimedStep]_vars

\* ------------------------------------------------------------ units and handlers
\* the playAudio calls that have made no source yet
UnderWay(ps) == {k \in 1..Len(ps) : ps[k].src = "none"}

\* in this step of a handler, playAudio was entered for unit data and went past
\* its checks
Entered(data) ==
    /\ Cardinality(UnderWay(plays')) = Cardinality(UnderWay(plays)) + 1
    /\ plays'[Len(plays')].data = data
    /\ plays'[Len(plays')].src = "none"

\* a source.onended handler runs in this step
OnEndedRuns == \E k \in 1..Len(plays), suspended \in BOOLEAN : OnEnded(k, suspended)

\* the unit ids in use: in the queue, current, or held by a playAudio call
UidsInUse ==
    {audioQueue[i].uid : i \in 1..Len(audioQueue)}
        \cup {plays[k].data.uid : k \in 1..Len(plays)}
        \cup {currentAudioData.uid}

\* the queued units are distinct units that processUserSpeech has pushed, and
\* none of them is the current unit or in the hands of a playAudio call
QueueHoldsFreshUnits ==
    /\ \A i \in 1..Len(audioQueue) :
          /\ audioQueue[i].uid \in 1..unitsMade
          /\ audioQueue[i].uid # currentAudioData.uid
          /\ \A k \in 1..Len(plays) : plays[k].data.uid # audioQueue[i].uid
          /\ \A j \in 1..Len(audioQueue) : audioQueue[j].uid = audioQueue[i].uid => j = i
    /\ \A u \in UidsInUse : u <= unitsMade

\* C13 as claimed: once a source of a unit has played to its natural end, no
\* onSpeechStart and no onended handler enters playAudio for that unit again
C13_ClaimedStep ==
    \A k \in 1..Len(plays) :
        (PlayedThrough(plays, k) /\ (SpeechStarts \/ OnEndedRuns))
            => ~Entered(plays[k].data)

C13_ConsumedAtMostOnce == [][C13_ClaimedStep]_vars

\* C13 amended: a unit leaves audioQueue once and is never put back, and an
\* onended handler never plays the ended unit again; but the unit that has
\* played to its end stays the current unit, and an onSpeechStart that finds
\* the queue empty and no source of the current unit playing or on its way
\* (they have ended or were stopped) enters playAudio for it again, at offset 0
C13_AmendedStep ==
    /\ QueueHoldsFreshUnits'
    /\ \/ audioQueue' = audioQueue
       \/ audioQueue # <<>> /\ audioQueue' = Tail(audioQueue)
       \/ /\ unitsMade' = unitsMade + 1
          /\ Len(audioQueue') = Len(audioQueue) + 1
          /\ SubSeq(audioQueue', 1, Len(audioQueue)) = audioQueue
          /\ audioQueue'[Len(audioQueue')].uid = unitsMade'
    /\ \A k \in 1..Len(plays), suspended \in BOOLEAN :
          OnEnded(k, suspended) => ~Entered(plays[k].data)
    /\ (/\ SpeechStarts
        /\ ~isFirstSpeech
        /\ audioQueue = <<>>
        /\ currentAudioData # NoData
        /\ \A k \in 1..Len(plays) :
              plays[k].data = currentAudioData => plays[k].src \in {"ended", "stopped"})
           => /\ Entered(currentAudioData)
              /\ currentPlaybackTime' = 0

C13_DequeuedOnceReplayedOnSpeechStart == [][C13_AmendedStep]_vars

\* C13 witness: the source of the current unit has played to its end and its
\* ended event is delivered, and onSpeechStart has entered playAudio for the
\* same unit again
C13_Witness ==
    /\ currentAudioElement # 0
    /\ PlayedThrough(plays, currentAudioElement)
    /\ ~plays[currentAudioElement].endedPending
    /\ isCurrentlySpeaking
    /\ audioQueue = <<>>
    /\ \E j \in UnderWay(plays) : plays[j].data = plays[currentAudioElement].data

\* C14: an onSpeechStart after the bootstrap that finds the queue empty and a
\* current unit enters playAudio for that unit, and a source that is then made
\* while the user is speaking is started
C14_Step ==
    /\ (SpeechStarts /\ ~isFirstSpeech /\ audioQueue = <<>> /\ currentAudioData # NoData)
           => /\ Entered(currentAudioData)
              /\ audioQueue' = <<>>
    /\ \A k \in 1..Len(plays) :
           (DecodeReturns(k) /\ isCurrentlySpeaking /\ plays[k].data = currentAudioData)
               => /\ currentAudioElement' # 0
                  /\ plays'[currentAudioElement'].data = currentAudioData
                  /\ plays'[currentAudioElement'].src = "playing"

C14_MostRecentUnitPlayed == [][C14_Step]_vars

\* C14 witness: the current unit was stopped by onSpeechEnd, the next
\* onSpeechStart found the queue empty, and the unit is playing again
C14_Witness ==
    /\ isCurrentlySpeaking
    /\ ~isFirstSpeech
    /\ audioQueue = <<>>
    /\ pipes # <<>>
    /\ currentAudioElement # 0
    /\ plays[currentAudioElement].src = "playing"
    /\ plays[currentAudioElement].data = currentAudioData

\* C15 as claimed: onSpeechEnd clears isCurrentlySpeaking, leaves no source
\* playing, and leaves currentAudioData and audioQueue as they were
C15_ClaimedStep ==
    SpeechEnd => /\ ~isCurrentlySpeaking'
                 /\ \A k \in 1..Len(plays') : plays'[k].src # "playing"
                 /\ currentAudioData' = currentAudioData
                 /\ audioQueue' = audioQueue

C15_SpeechEndStopsAndKeeps == [][C15_ClaimedStep]_vars

\* C16: the push of a synthesized unit appends it to audioQueue and changes
\* neither the current unit, nor any source or playAudio call, nor
\* isCurrentlySpeaking
C16_Step ==
    \A n \in 1..Len(pipes) :
        ProcessTextReturns(n)
            => /\ Len(audioQueue') = Len(audioQueue) + 1
               /\ SubSeq(audioQueue', 1, Len(audioQueue)) = audioQueue
               /\ audioQueue'[Len(audioQueue')].voiceId = pipes[n].personalityId
               /\ UNCHANGED <<currentAudioData, currentAudioElement, plays,
                              isCurrentlySpeaking, currentPlaybackTime>>

C16_EnqueueStartsNothing == [][C16_Step]_vars

\* C16 witness: the user is speaking, nothing is playing or about to, and a unit
\* has been pushed
C16_Witness ==
    /\ isCurrentlySpeaking
    /\ plays = <<>>
    /\ currentAudioElement = 0
    /\ lastAudioFetches = 0
    /\ Len(audioQueue) = 1
    /\ unitsMade = 1

\* C17: at the natural end of a source, with the user speaking and a unit
\* queued, onended dequeues the head and enters playAudio for it with offset 0,
\* and its source starts at 0; with the user silent or the queue empty, onended
\* leaves the queue and the plays alone
C17_Step ==
    /\ \A k \in 1..Len(plays), suspended \in BOOLEAN :
          (OnEnded(k, suspended) /\ PlayedThrough(plays, k))
              => IF isCurrentlySpeaking /\ audioQueue # <<>>
                 THEN /\ audioQueue' = Tail(audioQueue)
                      /\ Entered(Head(audioQueue))
                      /\ currentPlaybackTime' = 0
                      /\ isCurrentlySpeaking' = isCurrentlySpeaking
                 ELSE /\ audioQueue' = audioQueue
                      /\ Cardinality(UnderWay(plays')) = Cardinality(UnderWay(plays))
                      /\ currentAudioData' = currentAudioData
    /\ \A k \in 1..Len(plays) :
          (DecodeReturns(k) /\ isCurrentlySpeaking)
              => /\ currentAudioElement' # 0
                 /\ plays'[currentAudioElement'].src = "playing"
                 /\ plays'[currentAudioElement'].offset = 0

C17_ChainedPlayback == [][C17_Step]_vars

\* C17 witness: the bootstrap unit has played to its end, the user has not stopped
\* speaking since, and the queued unit is playing
C17_Witness ==
    /\ isCurrentlySpeaking
    /\ audioQueue = <<>>
    /\ currentAudioData.uid = 1
    /\ currentAudioElement # 0
    /\ plays[currentAudioElement].src = "playing"
    /\ plays[currentAudioElement].data.uid = 1
    /\ pannerNodes["advisor"] # <<>>

\* C18: an onSpeechStart after the bootstrap that finds the queue empty and no
\* current unit enters no playAudio call, issues no fetch, and leaves the queue,
\* the current unit, the sources and the panner map as they were
C18_Step ==
    (SpeechStarts /\ ~isFirstSpeech /\ audioQueue = <<>> /\ currentAudioData = NoData)
        => /\ isCurrentlySpeaking'
           /\ UNCHANGED <<audioQueue, currentAudioData, currentAudioElement, plays,
                          pannerNodes, lastAudioFetches, currentPlaybackTime>>

PositionlessNotPlayed ==
    /\ currentAudioData # NoData => currentAudioData.position # <<>>
    /\ \A k \in 1..Len(plays) : plays[k].data.position # <<>>

\* C19: a unit without position never becomes the current unit and gets no
\* source; the handler that dequeues it drops it, entering no playAudio call,
\* starting no source and creating no panner
C19_Step ==
    /\ PositionlessNotPlayed
    /\ PositionlessNotPlayed'
    /\ (/\ SpeechStarts \/ OnEndedRuns
        /\ audioQueue # <<>>
        /\ audioQueue' = Tail(audioQueue)
        /\ Head(audioQueue).position = <<>>)
           => /\ Cardinality(UnderWay(plays')) = Cardinality(UnderWay(plays))
              /\ pannerNodes' = pannerNodes
              /\ currentAudioData' # Head(audioQueue)
              /\ \A i \in 1..Len(audioQueue') : audioQueue'[i].uid # Head(audioQueue).uid

C19_UnitWithoutPositionDropped == [][C19_Step]_vars

\* C19 witness: the one unit made has left the queue, yet no playAudio call is
\* under way and no panner exists: the unit had no position and was dropped
C19_Witness ==
    /\ unitsMade = 1
    /\ audioQueue = <<>>
    /\ ~isFirstSpeech
    /\ isCurrentlySpeaking
    /\ plays = <<>>
    /\ currentAudioData = NoData
    /\ \A id \in PersonalityIds : pannerNodes[id] = <<>>

\* every playAudio call past getPersonalityPanner holds the panner kept under
\* its unit's voiceId, and that panner exists
RoutedByOwnPanner ==
    \A k \in 1..Len(plays) :
        plays[k].pc # "resume" =>
            /\ plays[k].panner = plays[k].data.voiceId
            /\ pannerNodes[plays[k].panner] # <<>>

\* C20: a panner, once in pannerNodes, stays there with its position; it is
\* created at the position of the unit whose playAudio call made it; and every
\* unit is routed through the panner of its voiceId
C20_Step ==
    /\ RoutedByOwnPanner
    /\ RoutedByOwnPanner'
    /\ \A id \in PersonalityIds :
          IF pannerNodes[id] # <<>>
          THEN pannerNodes'[id] = pannerNodes[id]
          ELSE pannerNodes'[id] # <<>> =>
                  /\ currentAudioData'.voiceId = id
                  /\ currentAudioData'.position = pannerNodes'[id]

C20_PannersPersist == [][C20_Step]_vars

\* C20 witness: a unit is playing through the panner of its voiceId, and the
\* panner is not where the unit says, but where an earlier unit put it
C20_Witness ==
    \E k \in 1..Len(plays) :
        /\ plays[k].src = "playing"
        /\ pannerNodes[plays[k].panner] # <<>>
        /\ pannerNodes[plays[k].panner] # plays[k].data.position

\* ------------------------------------------------------------ repeated starts, pipeline, failures
\* C21 as claimed: an onSpeechStart that follows an onSpeechStart with no
\* onSpeechEnd between them (isCurrentlySpeaking is still true) dequeues
\* nothing, keeps the current unit, and enters no playAudio call and stops no
\* source
C21_ClaimedStep ==
    (SpeechStarts /\ isCurrentlySpeaking)
        => UNCHANGED <<audioQueue, currentAudioData, currentAudioElement, plays>>

C21_SpeechStartIdempotent == [][C21_ClaimedStep]_vars

\* a pipeline run has ended in this step: one run fewer is under way
RunEnds == Len(pipes') = Len(pipes) - 1

\* C22: the queue grows only by the push of a run in its synthesis stage, whose
\* transcript is not empty after trim and which was answered with a reply; the
\* push appends one unit and ends the run; a blank transcript, a queued answer
\* and a failure end the run and leave the queue as it was
C22_Step ==
    /\ Len(audioQueue') > Len(audioQueue)
           => \E n \in 1..Len(pipes) :
                  /\ ProcessTextReturns(n)
                  /\ pipes[n].stage = "tts"
                  /\ Trim(pipes[n].transcription) # <<>>
                  /\ Len(audioQueue') = Len(audioQueue) + 1
                  /\ RunEnds
    /\ \A n \in 1..Len(pipes) :
          /\ \A text \in Transcripts :
                TranscribeReturns(n, text)
                    => /\ audioQueue' = audioQueue
                       /\ Trim(text) = <<>> => RunEnds
          /\ StageFails(n) => (audioQueue' = audioQueue /\ RunEnds)
          /\ LlamaQueued(n) => (audioQueue' = audioQueue /\ RunEnds)
          /\ LlamaDispatched(n) => audioQueue' = audioQueue

C22_PipelineEnqueuesOnSuccessOnly == [][C22_Step]_vars

\* C22 witness: the run of one utterance has pushed its unit and is over
C22_Witness ==
    /\ unitsMade = 1
    /\ Len(audioQueue) = 1
    /\ audioQueue[1].uid = 1
    /\ pipes = <<>>

\* C23 as claimed: when the decode of a unit fails, the unit does not remain the
\* current unit
C23_ClaimedStep ==
    \A k \in 1..Len(plays) :
        (DecodeThrows(k) /\ plays[k].data = currentAudioData)
            => currentAudioData' # plays[k].data

C23_FailedUnitAbandoned == [][C23_ClaimedStep]_vars

\* C23 amended: a failed decode changes neither the current unit nor the queue
\* nor currentAudioElement; the next onSpeechStart with an empty queue enters
\* playAudio for the current unit again, and with a non-empty queue it plays the
\* head instead
C23_AmendedStep ==
    /\ \A k \in 1..Len(plays) :
          DecodeThrows(k) => /\ currentAudioData' = currentAudioData
                             /\ audioQueue' = audioQueue
                             /\ currentAudioElement # k
    /\ (/\ SpeechStarts
        /\ ~isFirstSpeech
        /\ currentAudioData # NoData
        /\ \A k \in 1..Len(plays) : plays[k].data # currentAudioData)
           => IF audioQueue = <<>>
              THEN Entered(currentAudioData)
              ELSE /\ Entered(Head(audioQueue))
                   /\ audioQueue' = Tail(audioQueue)

C23_FailedUnitStaysCurrent == [][C23_AmendedStep]_vars

\* C23 witness: the user is speaking and there is a current unit, but no source
\* and no playAudio call for it: its decode has failed
C23_Witness ==
    /\ isCurrentlySpeaking
    /\ currentAudioData # NoData
    /\ currentAudioElement = 0
    /\ plays = <<>>

\* C24 as claimed: onSpeechStart issues a /last-audio fetch only when none was
\* issued before, so never while one is under way
C24_ClaimedStep ==
    (SpeechStarts /\ lastAudioFetches > 0) => lastAudioFetches' = lastAudioFetches

C24_OneBootstrapFetch == [][C24_ClaimedStep]_vars

\* ------------------------------------------------------------ endpoints and files
\* a request of /transcribe or /process-text whose required field is missing or
\* empty
LacksField(r) == ~r.body.has \/ r.body.payload = <<>>

C25_AmendedStep ==
    \A body \in TranscribeBodies :
        (Transcribe(body) /\ ~body.has)
            => /\ freqs'[Len(freqs')].status = 500
               /\ freqs'[Len(freqs')].file = 0
               /\ ~freqs'[Len(freqs')].awaiting
               /\ uploadsDir' = uploadsDir
               /\ Awaiting' = Awaiting

OnlySpaces(str) == \A k \in 1..Len(str) : str[k] = Space

\* C26: the arrival of a request whose required field is missing or empty (for
\* /query-llama also: only spaces) changes no server state
C26_Step ==
    /\ (/\ Len(reqs') = Len(reqs) + 1
        /\ LET body == reqs'[Len(reqs')].body
           IN ~body.has \/ OnlySpaces(body.transcription))
           => UNCHANGED <<currentPersonalityIndex, personalities, lastGeneratedAudio,
                          responsesDir, uploadsDir>>
    /\ (/\ Len(freqs') = Len(freqs) + 1
        /\ LacksField(freqs'[Len(freqs')]))
           => /\ UNCHANGED <<currentPersonalityIndex, personalities, lastGeneratedAudio,
                             responsesDir, uploadsDir>>
              /\ ~freqs'[Len(freqs')].awaiting

C26_RejectedRequestMutatesNothing == [][C26_Step]_vars

\* C26 witness: after a dispatched request, a request with only a space, and a
\* file request without its field, have been answered
C26_Witness ==
    /\ Len(reqs) = 2
    /\ reqs[1].st = "awaiting"
    /\ reqs[2].body.has
    /\ reqs[2].body.transcription = <<Space>>
    /\ Len(freqs) = 1
    /\ LacksField(freqs[1])
    /\ freqs[1].status # 0

\* request i of /process-text ends in this step with its file synthesized
Synthesized(i) ==
    /\ freqs[i].awaiting
    /\ freqs[i].ep = "process-text"
    /\ ~freqs'[i].awaiting
    /\ freqs'[i].status = 200

\* C27: lastGeneratedAudio starts as the initial file, becomes the file of each
\* synthesis at the moment it succeeds, changes at no other step, and is a file
\* /last-audio can send
C27_Step ==
    /\ IF \E i \in 1..Len(freqs) : Synthesized(i)
       THEN \E i \in 1..Len(freqs) : Synthesized(i) /\ lastGeneratedAudio' = freqs[i].file
       ELSE lastGeneratedAudio' = lastGeneratedAudio
    /\ (\A i \in 1..Len(freqs') : ~(freqs'[i].ep = "process-text" /\ freqs'[i].file # 0
                                     /\ freqs'[i].status = 200))
           => lastGeneratedAudio' = InitialAudio
    /\ LastAudio'.status = 200
    /\ LastAudio'.file = lastGeneratedAudio'

C27_LastAudioIsLatestSynthesis == [][C27_Step]_vars

\* C27 witness: two overlapping syntheses have succeeded, the one that arrived
\* first last
C27_Witness ==
    /\ Len(freqs) >= 2
    /\ freqs[1].ep = "process-text" /\ freqs[1].status = 200 /\ freqs[1].file # 0
    /\ freqs[2].ep = "process-text" /\ freqs[2].status = 200 /\ freqs[2].file # 0
    /\ lastGeneratedAudio = freqs[1].file

\* the last n elements of seq (all of it if it is shorter)
LastN(seq, n) == IF Len(seq) <= n THEN seq ELSE SubSeq(seq, Len(seq) - n + 1, Len(seq))

\* C28: after the cleanup of a successful synthesis RESPONSES_DIR holds at most
\* 5 files, the 5 written last
C28_Step ==
    \A i \in 1..Len(freqs) :
        Synthesized(i)
            => /\ Len(responsesDir') <= 5
               /\ responsesDir' = LastN(Append(responsesDir, freqs[i].file), 5)

C28_FiveNewestKept == [][C28_Step]_vars

\* C28 witness: two syntheses have succeeded on a directory that held files of a
\* former run, and five files are there
C28_Witness ==
    /\ Len(responsesDir) = 5
    /\ responsesDir[1] < 0
    /\ responsesDir[4] > 0
    /\ lastGeneratedAudio = responsesDir[5]

\* C29 as claimed: a /transcribe request that wrote its temporary file and has
\* been answered has deleted the file
C29_TempFileDeleted ==
    \A i \in 1..Len(freqs) :
        (freqs[i].ep = "transcribe" /\ freqs[i].file # 0 /\ ~freqs[i].awaiting)
            => freqs[i].file \notin uploadsDir

\* C30 as claimed: every history alternates, prompts at the 1st, 3rd, ... place
\* and generated replies at the 2nd, 4th, ...
C30_HistoryAlternates ==
    \A id \in PersonalityIds :
        \A k \in 1..Len(personalities[id].conversationHistory) :
            (personalities[id].conversationHistory[k] \in Replies) <=> (k % 2 = 0)

\* ------------------------------------------------------------ the busy flag
\* C31: for every personality, isProcessing is true exactly when a generation
\* call for it is in flight
C31_BusyIffInFlight ==
    \A p \in PersonalityIds : personalities[p].isProcessing <=> (InFlightFor(p) # {})

\* C31 witness: one personality is busy with a call in flight while another,
\* whose call has failed, and a third, whose call has returned, are idle
C31_Witness ==
    \E i, j, k \in 1..Len(reqs) :
        /\ reqs[i].st = "awaiting" /\ personalities[reqs[i].personalityId].isProcessing
        /\ reqs[j].st = "error" /\ ~personalities[reqs[j].personalityId].isProcessing
        /\ reqs[k].st = "responded" /\ ~personalities[reqs[k].personalityId].isProcessing
        /\ personalities[reqs[i].personalityId].pendingTranscriptions # <<>>

\* ------------------------------------------------------------ the order of the queue
\* C32: the queue holds its units in the order they were pushed; it changes only
\* by a push at its end or by losing its head, which is then older than every
\* unit left and is handed to playAudio by onSpeechStart or by an onended handler
C32_Step ==
    /\ \A i, j \in 1..Len(audioQueue') : i < j => audioQueue'[i].uid < audioQueue'[j].uid
    /\ audioQueue' # audioQueue =>
          \/ /\ Len(audioQueue') = Len(audioQueue) + 1
             /\ SubSeq(audioQueue', 1, Len(audioQueue)) = audioQueue
             /\ audioQueue'[Len(audioQueue')].uid = unitsMade'
             /\ unitsMade' = unitsMade + 1
          \/ /\ audioQueue # <<>>
             /\ audioQueue' = Tail(audioQueue)
             /\ SpeechStarts \/ OnEndedRuns
             /\ \A i \in 2..Len(audioQueue) : Head(audioQueue).uid < audioQueue[i].uid
             /\ Entered(Head(audioQueue))

C32_QueueIsFifo == [][C32_Step]_vars

\* C32 witness: two units were queued together; the first has been dequeued and
\* is the current unit, the second is still queued
C32_Witness ==
    /\ unitsMade = 2
    /\ Len(audioQueue) = 1
    /\ audioQueue[1].uid = 2
    /\ currentAudioData.uid = 1
    /\ \E k \in 1..Len(plays) : plays[k].data.uid = 1 /\ plays[k].src = "playing"

\* ------------------------------------------------------------ chain-advance
\* C33 as claimed: the onended handler of a source that was stopped (by
\* onSpeechEnd, or by a playAudio call that replaced it) takes no unit from the
\* queue, whatever isCurrentlySpeaking is when it runs
C33_ClaimedStep ==
    \A k \in 1..Len(plays), suspended \in BOOLEAN :
        (OnEnded(k, suspended) /\ plays[k].src = "stopped") => audioQueue' = audioQueue

C33_ChainOnNaturalEndOnly == [][C33_ClaimedStep]_vars

\* ------------------------------------------------------------ one source at a time
\* C34 as claimed: at most one source is audibly playing, and a source that is
\* audibly playing is the one currentAudioElement refers to
C34_OneAudibleSourceHeld ==
    /\ Cardinality(Audible) <= 1
    /\ \A k \in Audible : currentAudioElement = k

\* ------------------------------------------------------------ the queue drains
\* the unit with id u is in the queue
Queued(u) == \E i \in 1..Len(audioQueue) : audioQueue[i].uid = u

\* C35 as claimed: when speech starts keep occurring and every fetch and decode
\* settles, every unit put on the queue is eventually taken from it (or the
\* playAudio calls under way have reached MaxPlays, where the model lets no
\* handler enter another)
C35_EveryQueuedUnitDequeued ==
    \A u \in 1..MaxUtterances : Queued(u) ~> (~Queued(u) \/ ~HasRoom)

\* ------------------------------------------------------------ the appended message stays
\* C36: after updateHistory(msg) the history is not empty and msg is its last
\* entry; what the call removed is an even number of entries from the front of
\* the history with msg appended, and it removed nothing when that held at most
\* 2 entries
C36_Step ==
    \A msg \in Messages :
        HistoryUpdate(msg) =>
            LET pushed == Append(Subject.conversationHistory, msg)
                h == Subject'.conversationHistory
            IN /\ h # <<>>
               /\ h[Len(h)] = msg
               /\ \E d \in 0..(Len(pushed) - 1) :
                      /\ d % 2 = 0
                      /\ h = SubSeq(pushed, d + 1, Len(pushed))
                      /\ d > 0 => Len(pushed) > 2

C36_AppendedMessageIsLast == [][C36_Step]_vars

\* C36 witness: under the smallest limits, two entries are left that are each
\* longer than maxTotalChars; the loop has left them alone, the appended one last
C36_Witness ==
    /\ Subject.maxHistoryLength = 1
    /\ Subject.maxTotalChars = 1
    /\ Subject.conversationHistory = <<<<97, 97>>, <<98, 98>>>>

\* ------------------------------------------------------------ a failed generation
\* the requests whose input the dispatch of request i drained (each input
\* carries the word of its request)
DrainedBy(i) == {m \in 1..i : Occurrences(Word(m), reqs[i].fullTranscription) > 0}

\* the inputs drained by a failed dispatch are in no pendingTranscriptions and
\* in no other dispatch
FailedInputsGone ==
    \A i \in 1..Len(reqs) :
        reqs[i].st = "error" =>
            \A m \in DrainedBy(i) :
                /\ \A j \in Dispatched \ {i} :
                       Occurrences(Word(m), reqs[j].fullTranscription) = 0
                /\ \A p \in PersonalityIds :
                       \A k \in 1..Len(personalities[p].pendingTranscriptions) :
                           Occurrences(Word(m), personalities[p].pendingTranscriptions[k]) = 0

\* C37: the step in which a generation call fails leaves its personality's
\* history (whose last entry is the combined prompt of the call) and
\* pendingTranscriptions as they were, every pending entry being the input of a
\* request that arrived during the call; and the inputs of a failed dispatch
\* never appear in pendingTranscriptions or in another dispatch
C37_Step ==
    /\ \A i \in 1..Len(reqs) :
           (i \in InFlight /\ reqs'[i].st = "error") =>
               LET pid == reqs[i].personalityId
                   h == personalities'[pid].conversationHistory
                   pending == personalities'[pid].pendingTranscriptions
               IN /\ h = personalities[pid].conversationHistory
                  /\ h # <<>>
                  /\ h[Len(h)] = reqs[i].fullTranscription
                  /\ pending = personalities[pid].pendingTranscriptions
                  /\ \A k \in 1..Len(pending) :
                         \E j \in (i + 1)..Len(reqs) :
                             /\ reqs[j].st = "queued"
                             /\ reqs[j].personalityId = pid
                             /\ reqs[j].body.transcription = pending[k]
    /\ FailedInputsGone'

C37_FailedInputsNotRequeued == [][C37_Step]_vars

\* C37 witness: a generation failed after another input was queued behind it,
\* and a later dispatch for the same personality has submitted that input and
\* its own, without the inputs of the failed one
C37_Witness ==
    \E i, j, k \in 1..Len(reqs) :
        /\ i < j /\ j < k
        /\ reqs[i].st = "error"
        /\ reqs[j].st = "queued"
        /\ reqs[k].st = "awaiting"
        /\ reqs[j].personalityId = reqs[i].personalityId
        /\ reqs[k].personalityId = reqs[i].personalityId
        /\ reqs[k].fullTranscription =
               reqs[j].body.transcription \o <<Space>> \o reqs[k].body.transcription
        /\ Len(personalities[reqs[i].personalityId].conversationHistory) = 2

\* ------------------------------------------------------------ exclusion per personality
\* C39: a non-empty request for a personality that is not busy is dispatched
\* in the run that receives it, whatever calls are in flight for others; a
\* request changes no personality but the one it selects, and the end of a
\* generation call (return or failure) changes no personality but its own
C39_Step ==
    /\ (Arrives /\ Arrived.st # "empty"
            /\ ~personalities[Arrived.personalityId].isProcessing)
           => /\ Arrived.st = "awaiting"
              /\ personalities'[Arrived.personalityId].isProcessing
    /\ (Arrives /\ Arrived.st # "empty")
           => \A p \in PersonalityIds \ {Arrived.personalityId} :
                  personalities'[p] = personalities[p]
    /\ \A i \in 1..Len(reqs) :
           Ends(i) => \A p \in PersonalityIds \ {reqs[i].personalityId} :
                          personalities'[p] = personalities[p]

C39_ExclusionIsPerPersonality == [][C39_Step]_vars

\* C39 witness: while the first request's call is in flight, the call of a
\* second personality has ended, and a request for a third personality was
\* dispatched at once
C39_Witness ==
    \E i, j, k \in 1..Len(reqs) :
        /\ i < j /\ j < k
        /\ reqs[i].st = "awaiting"
        /\ reqs[j].st \in {"responded", "error"}
        /\ reqs[k].st = "awaiting" /\ reqs[k].overlapped
        /\ Cardinality({reqs[i].personalityId, reqs[j].personalityId,
                         reqs[k].personalityId}) = 3

\* ------------------------------------------------------------ the served file stays
\* the files of a directory
FilesOf(dir) == {dir[k] : k \in 1..Len(dir)}

\* C38: no step deletes the file lastGeneratedAudio names after the step, and
\* once a synthesis has succeeded lastGeneratedAudio names a response file that
\* is in RESPONSES_DIR, so that /last-audio answers 200
C38_Step ==
    /\ lastGeneratedAudio' \notin (FilesOf(responsesDir) \ FilesOf(responsesDir'))
    /\ (\E i \in 1..Len(freqs') :
            freqs'[i].ep = "process-text" /\ freqs'[i].file # 0 /\ freqs'[i].status = 200)
           => /\ lastGeneratedAudio' # InitialAudio
              /\ lastGeneratedAudio' \in FilesOf(responsesDir')
              /\ LastAudio'.status = 200

C38_ServedFileNeverDeleted == [][C38_Step]_vars

\* C38 witness: two overlapping syntheses have succeeded, the second to arrive
\* first; the cleanups have deleted the oldest file of the former run, and the
\* file lastGeneratedAudio names is there with the one that was served before
C38_Witness ==
    /\ Len(freqs) >= 2
    /\ freqs[1].ep = "process-text" /\ freqs[1].status = 200
    /\ freqs[2].ep = "process-text" /\ freqs[2].status = 200
    /\ lastGeneratedAudio = freqs[1].file
    /\ Len(responsesDir) = 5
    /\ responsesDir[1] < 0 - 1
    /\ responsesDir[4] = freqs[2].file
    /\ responsesDir[5] = freqs[1].file

====
